---- MODULE Spec2Model ----
(***************************************************************************)
(* docker-housekeeping (src/main.go): the two cli commands "retag" and     *)
(* "prune-preview-tags" as one sequential state machine.  Every remote     *)
(* HTTP call is one action; the registry, the hub and the token service    *)
(* are black boxes whose responses are drawn from small sets.  The         *)
(* variable calls is the record a mocked transport would keep of the       *)
(* requests it received.                                                   *)
(***************************************************************************)
EXTENDS Integers, Sequences, FiniteSets, TLC

VARIABLES
    cmd,            \* the subcommand of this run: "retag" or "prune"
    env,            \* which of the two credential variables are set
    args,           \* retag flags: repository, oldTag, newTag
    pc,             \* position of the Action func
    images,         \* prune: result of getAllImages
    i,              \* prune: index of the outer loop (1-based)
    tags,           \* prune: result of listPreviewTags for images[i]
    j,              \* prune: index of the inner loop (1-based)
    hubToken,       \* prune: result of loginHub
    registryToken,  \* token of loginRegistry (retag: token)
    t,              \* prune: result of getTagLastUpdate for tags[j]
    manifest,       \* retag: result of pullManifest
    now,            \* the wall clock, in units of 1/UnitsPerHour hour
    resp,           \* the HTTP response of the latest remote call
    calls,          \* the requests sent so far, in order
    result,         \* what the Action func returned
    stdout          \* lines printed by fmt.Printf

vars == <<cmd, env, args, pc, images, i, tags, j, hubToken, registryToken, t,
          manifest, now, resp, calls, result, stdout>>

----------------------------------------------------------------------------
(* Bounds of the model *)

MaxImages == 2      \* entries of the organization listing
MaxTags == 3        \* entries of a registry tag list
MaxTicks == 1       \* clock units that may pass during a run
UnitsPerHour == 2   \* clock resolution

----------------------------------------------------------------------------
(* Strings.  A string the code inspects is a tuple of characters. *)

EmptyString == <<>>
PreviewPrefix == <<"p", "r", "e", "v", "i", "e", "w", "-">>
Sha256Prefix == <<"s", "h", "a", "2", "5", "6", ":">>

HasPrefix(s, prefix) ==
    /\ Len(s) >= Len(prefix)
    /\ SubSeq(s, 1, Len(prefix)) = prefix

PreviewA == PreviewPrefix \o <<"a">>
PreviewB == PreviewPrefix \o <<"b">>
Latest == <<"l", "a", "t", "e", "s", "t">>
PreviewNoDash == <<"p", "r", "e", "v", "i", "e", "w">>
TagV1 == <<"v", "1">>
TagV2 == <<"v", "2">>
DigestTag == Sha256Prefix \o <<"a", "b">>

\* what a registry tag list may contain
TagNames == {PreviewA, PreviewB, Latest, PreviewNoDash}

dockerUsernameEnv == "DOCKERHUB_USERNAME"
dockerPasswordEnv == "DOCKERHUB_PASSWORD"
ManifestV2MediaType == "application/vnd.docker.distribution.manifest.v2+json"

ImageName(k) == <<"img", k>>
Repository(image) == <<"antidotelabs/", image>>

----------------------------------------------------------------------------
(* HTTP *)

StatusOK == 200
StatusCreated == 201
StatusNoContent == 204
\* the three codes the code tests for, and one it does not
Statuses == {StatusOK, StatusCreated, StatusNoContent, 404}

StatusText(s) ==
    CASE s = StatusOK -> "200 OK"
      [] s = StatusCreated -> "201 Created"
      [] s = StatusNoContent -> "204 No Content"
      [] OTHER -> "404 Not Found"

\* client.Do failed: there is no response
TransportError == [transport |-> "error", status |-> 0, body |-> [kind |-> "none"]]
ReadError == [kind |-> "readError"]
Malformed == [kind |-> "malformed"]
NoBody == [kind |-> "bytes", bytes |-> <<>>]

\* the responses of an endpoint whose success code is succ and whose
\* bodies on success are drawn from bodies
Responses(succ, bodies) ==
    {TransportError}
    \cup {[transport |-> "ok", status |-> s, body |-> NoBody] : s \in Statuses \ {succ}}
    \cup {[transport |-> "ok", status |-> succ, body |-> b] : b \in bodies}

NoResponse == [transport |-> "none", status |-> 0, body |-> [kind |-> "none"]]

\* a Go error is its message, a tuple of fragments; nil is the empty tuple
Nil == <<>>
Ok(v) == [err |-> Nil, value |-> v]
Fail(e) == [err |-> e, value |-> <<>>]

\* one entry of calls: the request sent, whether the calling function
\* returned without error, and what it returned of the material later
\* requests are built from (a token, a manifest, a list of names)
Request(op, repo, tag, auth, header, body, res, reply) ==
    [op |-> op, repo |-> repo, tag |-> tag, auth |-> auth, header |-> header,
     body |-> body, ok |-> (res.err = Nil), reply |-> reply]

JsonToken(token) == [kind |-> "json", token |-> token]
JsonTags(list) == [kind |-> "json", tags |-> list]
JsonResults(names) == [kind |-> "json", results |-> names]
JsonLastUpdated(s) == [kind |-> "json", last_updated |-> s]
Bytes(b) == [kind |-> "bytes", bytes |-> b]

\* the token service hands out a new token on every request
Token(n) == <<"token", n>>

----------------------------------------------------------------------------
(* Time *)

HoursLimit == 24
Limit == HoursLimit * UnitsPerHour
NowStart == Limit + 2
MaxNow == NowStart + MaxTicks
\* last_updated values: older than, exactly at and younger than the limit
\* at NowStart, and one in the future
Stamps == {NowStart - Limit - 1, NowStart - Limit, NowStart - Limit + 1, MaxNow + 1}

\* an RFC3339 string is <<"rfc3339", s>>; anything else does not parse
RFC3339(s) == <<"rfc3339", s>>
NotATime == <<"n", "/", "a">>
TimeParse(str) ==
    IF Len(str) = 2 /\ str[1] = "rfc3339" THEN Ok(str[2])
    ELSE Fail(<<"parsing time: cannot parse">>)

\* Go's integer division truncates toward zero
Quo(a, b) == IF a >= 0 THEN a \div b ELSE -((-a) \div b)
Rem(a, b) == a - b * Quo(a, b)

\* Duration.Hours(): whole hours plus the fraction of the next, kept exact
Hours(d) == [h |-> Quo(d, UnitsPerHour), nsec |-> Rem(d, UnitsPerHour)]
Since(clock, time) == clock - time
\* variant: the comparison is not strict
AtLeastLimit(d) ==
    LET hours == Hours(d)
    IN  hours.h * UnitsPerHour + hours.nsec >= HoursLimit * UnitsPerHour

\* variant: only whole hours are compared
WholeHoursOlderThanLimit(d) == Hours(d).h > HoursLimit

\* time.Since(t).Hours() > 24
OlderThanLimit(d) ==
    LET hours == Hours(d)
    IN  hours.h * UnitsPerHour + hours.nsec > HoursLimit * UnitsPerHour

----------------------------------------------------------------------------
(* The functions of main.go, each as what it returns for a given response *)

loginRegistry(r) ==
    IF r.transport = "error" THEN Fail(<<"transport error">>)
    ELSE IF r.status # StatusOK THEN Fail(<<StatusText(r.status)>>)
    ELSE IF r.body.kind = "readError" THEN Fail(<<"read error">>)
    ELSE IF r.body.kind = "malformed" THEN Fail(<<"invalid json">>)
    ELSE IF r.body.token = EmptyString THEN Fail(<<"empty token">>)
    ELSE Ok(r.body.token)

\* variant: an empty token is returned as a token
loginHubNoEmptyCheck(r) ==
    IF r.transport = "error" THEN Fail(<<"transport error">>)
    ELSE IF r.status # StatusOK THEN Fail(<<StatusText(r.status)>>)
    ELSE IF r.body.kind = "readError" THEN Fail(<<"read error">>)
    ELSE IF r.body.kind = "malformed" THEN Fail(<<"invalid json">>)
    ELSE Ok(r.body.token)

loginHub(r) ==
    IF r.transport = "error" THEN Fail(<<"transport error">>)
    ELSE IF r.status # StatusOK THEN Fail(<<StatusText(r.status)>>)
    ELSE IF r.body.kind = "readError" THEN Fail(<<"read error">>)
    ELSE IF r.body.kind = "malformed" THEN Fail(<<"invalid json">>)
    ELSE IF r.body.token = EmptyString THEN Fail(<<"empty token">>)
    ELSE Ok(r.body.token)

pullManifest(r) ==
    IF r.transport = "error" THEN Fail(<<"transport error">>)
    ELSE IF r.status # StatusOK THEN Fail(<<StatusText(r.status)>>)
    ELSE IF r.body.kind = "readError" THEN Fail(<<"read error">>)
    ELSE Ok(r.body.bytes)

pushManifest(r) ==
    IF r.transport = "error" THEN Fail(<<"transport error">>)
    ELSE IF r.status # StatusCreated THEN Fail(<<StatusText(r.status)>>)
    ELSE Ok(<<>>)

\* variant: the matching tags are collected in reverse
RECURSIVE FilterPreviewReversed(_)
FilterPreviewReversed(list) ==
    IF list = <<>> THEN <<>>
    ELSE IF HasPrefix(Head(list), PreviewPrefix)
         THEN FilterPreviewReversed(Tail(list)) \o <<Head(list)>>
         ELSE FilterPreviewReversed(Tail(list))

\* variant: every tag of the list is kept
Unfiltered(list) == list

RECURSIVE FilterPreview(_)
FilterPreview(list) ==
    IF list = <<>> THEN <<>>
    ELSE IF HasPrefix(Head(list), PreviewPrefix)
         THEN <<Head(list)>> \o FilterPreview(Tail(list))
         ELSE FilterPreview(Tail(list))

listPreviewTags(r) ==
    IF r.transport = "error" THEN Fail(<<"transport error">>)
    ELSE IF r.status # StatusOK THEN Fail(<<StatusText(r.status)>>)
    ELSE IF r.body.kind = "readError" THEN Fail(<<"read error">>)
    ELSE IF r.body.kind = "malformed" THEN Fail(<<"invalid json">>)
    ELSE Ok(FilterPreview(r.body.tags))

getAllImages(r) ==
    IF r.transport = "error" THEN Fail(<<"transport error">>)
    ELSE IF r.status # StatusOK THEN Fail(<<StatusText(r.status)>>)
    ELSE IF r.body.kind = "readError" THEN Fail(<<"read error">>)
    ELSE IF r.body.kind = "malformed" THEN Fail(<<"invalid json">>)
    ELSE Ok(r.body.results)

getTagLastUpdate(r) ==
    IF r.transport = "error" THEN Fail(<<"transport error">>)
    ELSE IF r.status # StatusOK THEN Fail(<<StatusText(r.status)>>)
    ELSE IF r.body.kind = "readError" THEN Fail(<<"read error">>)
    ELSE IF r.body.kind = "malformed" THEN Fail(<<"invalid json">>)
    ELSE TimeParse(r.body.last_updated)

\* variant: the status of the response is not looked at
deleteTagAnyStatus(r) ==
    IF r.transport = "error" THEN Fail(<<"transport error">>)
    ELSE IF r.body.kind = "readError" THEN Fail(<<"read error">>)
    ELSE Ok(<<>>)

deleteTag(r) ==
    IF r.transport = "error" THEN Fail(<<"transport error">>)
    ELSE IF r.status # StatusNoContent THEN Fail(<<StatusText(r.status)>>)
    ELSE IF r.body.kind = "readError" THEN Fail(<<"read error">>)
    ELSE Ok(<<>>)

----------------------------------------------------------------------------
(* What the services may answer *)

TokenBodies(n) == {ReadError, Malformed, JsonToken(EmptyString), JsonToken(Token(n))}

Manifests == {<<>>, <<123, 125>>, <<123, 32, 125>>}
ManifestBodies == {ReadError} \cup {Bytes(m) : m \in Manifests}

\* duplicate-free lists of at most n elements of S
RECURSIVE Lists(_, _)
Lists(S, n) ==
    IF n = 0 THEN {<<>>}
    ELSE LET shorter == Lists(S, n - 1)
         IN  shorter \cup
             {Append(p[1], p[2]) :
                 p \in {q \in shorter \X S : \A k \in 1..Len(q[1]) : q[1][k] # q[2]}}

TagListBodies == {ReadError, Malformed} \cup {JsonTags(l) : l \in Lists(TagNames, MaxTags)}

\* the organization listing, in the order of the response
Listing(n) == [k \in 1..n |-> ImageName(k)]
ListingBodies == {ReadError, Malformed} \cup {JsonResults(Listing(n)) : n \in 0..MaxImages}

LastUpdatedBodies ==
    {ReadError, Malformed, JsonLastUpdated(EmptyString), JsonLastUpdated(NotATime)}
    \cup {JsonLastUpdated(RFC3339(s)) : s \in Stamps}

DeleteBodies == {ReadError, NoBody}

----------------------------------------------------------------------------
(* The run *)

Running == [status |-> "running", err |-> Nil]
Returned(e) == [status |-> "returned", err |-> e]

NoArgs == [repository |-> <<>>, oldTag |-> <<>>, newTag |-> <<>>]
RetagArgs == [repository : {Repository(ImageName(1))},
              oldTag : {TagV1, DigestTag},
              newTag : {TagV2, PreviewA}]

NoAuth == [scheme |-> "none", credential |-> <<>>]
Basic == [scheme |-> "Basic", credential |-> <<"username", "password">>]
Bearer(token) == [scheme |-> "Bearer", credential |-> token]
JWT(token) == [scheme |-> "JWT", credential |-> token]
NoHeader == [name |-> "", value |-> ""]
Header(name, value) == [name |-> name, value |-> value]

Init ==
    /\ cmd \in {"retag", "prune"}
    /\ env \in [user : BOOLEAN, pass : BOOLEAN]
    /\ args \in IF cmd = "retag" THEN RetagArgs ELSE {NoArgs}
    /\ pc = "start"
    /\ images = <<>>
    /\ i = 0
    /\ tags = <<>>
    /\ j = 0
    /\ hubToken = EmptyString
    /\ registryToken = EmptyString
    /\ t = 0
    /\ manifest = <<>>
    /\ now = NowStart
    /\ resp = NoResponse
    /\ calls = <<>>
    /\ result = Running
    /\ stdout = <<>>

\* return e from the Action func
Return(e) ==
    /\ pc' = "done"
    /\ result' = Returned(e)
    /\ UNCHANGED <<i, j, tags, registryToken, t>>

\* the head of the loop over images (line 126), about to run iteration k
EnterImage(imgs, k) ==
    /\ i' = k
    /\ j' = 0
    /\ tags' = <<>>
    /\ registryToken' = EmptyString
    /\ t' = 0
    /\ IF k <= Len(imgs)
       THEN pc' = "loginRegistry" /\ result' = result
       ELSE pc' = "done" /\ result' = Returned(Nil)

\* the head of the loop over tags (line 144), about to run iteration k
EnterTag(list, k) ==
    IF k <= Len(list)
    THEN /\ pc' = "getTagLastUpdate"
         /\ j' = k
         /\ tags' = list
         /\ t' = 0
         /\ UNCHANGED <<i, registryToken, result>>
    ELSE EnterImage(images, i + 1)

\* variant: an unset variable reads as the empty string
GetenvNoError == Nil

\* the LookupEnv checks that open both Action funcs
LookupEnvError ==
    IF ~env.user THEN <<dockerUsernameEnv, " not found in environment">>
    ELSE IF ~env.pass THEN <<dockerPasswordEnv, " not found in environment">>
    ELSE Nil

\* a request goes out and its response comes back
Send(request, r) ==
    /\ calls' = Append(calls, request)
    /\ resp' = r

----------------------------------------------------------------------------
(* prune-preview-tags *)

PruneLookupEnv ==
    /\ cmd = "prune"
    /\ pc = "start"
    /\ IF LookupEnvError # Nil
       THEN Return(LookupEnvError)
       ELSE /\ pc' = "getAllImages"
            /\ UNCHANGED <<result, i, j, tags, registryToken, t>>
    /\ UNCHANGED <<cmd, env, args, images, hubToken, manifest, now, resp, calls, stdout>>

\* variant: the loop over images starts without the hub login
AfterGetAllImagesNoLogin(res) ==
    /\ images' = res.value
    /\ EnterImage(res.value, 1)

\* lines 115-118: the error is logged, images stays nil
AfterGetAllImages(res) ==
    /\ images' = res.value
    /\ pc' = "loginHub"
    /\ UNCHANGED <<result, i, j, tags, registryToken, t>>

PruneGetAllImages ==
    /\ pc = "getAllImages"
    /\ \E r \in Responses(StatusOK, ListingBodies) :
         LET res == getAllImages(r)
         IN  /\ Send(Request("getAllImages", <<>>, <<>>, NoAuth, NoHeader, <<>>, res, res.value), r)
             /\ AfterGetAllImages(res)
    /\ UNCHANGED <<cmd, env, args, hubToken, manifest, now, stdout>>

\* lines 120-126
AfterLoginHub(res) ==
    IF res.err # Nil
    THEN /\ Return(<<"failed to authenticate: ">> \o res.err)
         /\ UNCHANGED hubToken
    ELSE /\ hubToken' = res.value
         /\ EnterImage(images, 1)

PruneLoginHub ==
    /\ pc = "loginHub"
    /\ \E r \in Responses(StatusOK, TokenBodies(Len(calls) + 1)) :
         LET res == loginHub(r)
         IN  /\ Send(Request("loginHub", <<>>, <<>>, NoAuth,
                             Header("Content-Type", "application/json"),
                             <<"username", "password">>, res, res.value), r)
             /\ AfterLoginHub(res)
    /\ UNCHANGED <<cmd, env, args, images, manifest, now, stdout>>

\* variant: a repository that cannot be authenticated for is skipped
AfterLoginRegistrySkip(res) ==
    IF res.err # Nil
    THEN EnterImage(images, i + 1)
    ELSE /\ registryToken' = res.value
         /\ pc' = "listPreviewTags"
         /\ UNCHANGED <<result, i, j, tags, t>>

\* lines 129-133
AfterLoginRegistry(res) ==
    IF res.err # Nil
    THEN Return(<<"failed to authenticate: ">> \o res.err)
    ELSE /\ registryToken' = res.value
         /\ pc' = "listPreviewTags"
         /\ UNCHANGED <<result, i, j, tags, t>>

PruneLoginRegistry ==
    /\ cmd = "prune"
    /\ pc = "loginRegistry"
    /\ \E r \in Responses(StatusOK, TokenBodies(Len(calls) + 1)) :
         LET res == loginRegistry(r)
         IN  /\ Send(Request("loginRegistry", Repository(images[i]), <<>>, Basic,
                             NoHeader, <<>>, res, res.value), r)
             /\ AfterLoginRegistry(res)
    /\ UNCHANGED <<cmd, env, args, images, hubToken, manifest, now, stdout>>

\* variant: the tags are walked from the last to the first
Reverse(list) == [k \in 1..Len(list) |-> list[Len(list) + 1 - k]]
AfterListPreviewTagsReversed(res) ==
    IF res.err # Nil
    THEN EnterImage(images, i + 1)
    ELSE EnterTag(Reverse(res.value), 1)

\* variant: a failed listing is returned to the caller
AfterListPreviewTagsReturn(res) ==
    IF res.err # Nil
    THEN Return(res.err)
    ELSE EnterTag(res.value, 1)

\* lines 135-144: a failed listing is logged and the loop continues
AfterListPreviewTags(res) ==
    IF res.err # Nil
    THEN EnterImage(images, i + 1)
    ELSE EnterTag(res.value, 1)

PruneListPreviewTags ==
    /\ pc = "listPreviewTags"
    /\ \E r \in Responses(StatusOK, TagListBodies) :
         LET res == listPreviewTags(r)
         IN  /\ Send(Request("listPreviewTags", Repository(images[i]), <<>>,
                             Bearer(registryToken),
                             Header("Accept", ManifestV2MediaType), <<>>, res, res.value), r)
             /\ AfterListPreviewTags(res)
    /\ UNCHANGED <<cmd, env, args, images, hubToken, manifest, now, stdout>>

\* variant: the error is dropped and the zero time.Time is evaluated
AfterGetTagLastUpdateUnchecked(res) ==
    /\ t' = IF res.err # Nil THEN 0 ELSE res.value
    /\ pc' = "evaluate"
    /\ UNCHANGED <<result, i, j, tags, registryToken>>

\* lines 145-149
AfterGetTagLastUpdate(res) ==
    IF res.err # Nil
    THEN Return(<<"failed to get last tag update: ">> \o res.err)
    ELSE /\ t' = res.value
         /\ pc' = "evaluate"
         /\ UNCHANGED <<result, i, j, tags, registryToken>>

PruneGetTagLastUpdate ==
    /\ pc = "getTagLastUpdate"
    /\ \E r \in Responses(StatusOK, LastUpdatedBodies) :
         LET res == getTagLastUpdate(r)
         IN  /\ Send(Request("getTagLastUpdate", Repository(images[i]), tags[j],
                             NoAuth, NoHeader, <<>>, res, <<>>), r)
             /\ AfterGetTagLastUpdate(res)
    /\ UNCHANGED <<cmd, env, args, images, hubToken, manifest, now, stdout>>

\* line 152: the clock is read; it never runs backwards
PruneEvaluate ==
    /\ pc = "evaluate"
    /\ \E clock \in now..MaxNow :
         /\ now' = clock
         /\ IF OlderThanLimit(Since(clock, t))
            THEN /\ pc' = "deleteTag"
                 /\ UNCHANGED <<result, i, j, tags, registryToken, t>>
            ELSE EnterTag(tags, j + 1)
    /\ UNCHANGED <<cmd, env, args, images, hubToken, manifest, resp, calls, stdout>>

\* variant: a failed delete is sent again
AfterDeleteTagRetry(res) ==
    IF res.err # Nil
    THEN UNCHANGED <<pc, result, i, j, tags, registryToken, t>>
    ELSE EnterTag(tags, j + 1)

\* variant: a failed delete is logged and the loop continues
AfterDeleteTagContinue(res) == EnterTag(tags, j + 1)

\* lines 155-160
AfterDeleteTag(res) ==
    IF res.err # Nil
    THEN Return(<<"failed to delete tag ">> \o tags[j] \o <<" - ">> \o res.err)
    ELSE EnterTag(tags, j + 1)

\* variant: the delete carries the registry token of the repository
PruneDeleteTagRegistryToken ==
    /\ pc = "deleteTag"
    /\ \E r \in Responses(StatusNoContent, DeleteBodies) :
         LET res == deleteTag(r)
         IN  /\ Send(Request("deleteTag", Repository(images[i]), tags[j],
                             JWT(registryToken), Header("Accept", "application/json"),
                             <<>>, res, <<>>), r)
             /\ AfterDeleteTag(res)
    /\ UNCHANGED <<cmd, env, args, images, hubToken, manifest, now, stdout>>

PruneDeleteTag ==
    /\ pc = "deleteTag"
    /\ \E r \in Responses(StatusNoContent, DeleteBodies) :
         LET res == deleteTag(r)
         IN  /\ Send(Request("deleteTag", Repository(images[i]), tags[j],
                             JWT(hubToken), Header("Accept", "application/json"),
                             <<>>, res, <<>>), r)
             /\ AfterDeleteTag(res)
    /\ UNCHANGED <<cmd, env, args, images, hubToken, manifest, now, stdout>>

----------------------------------------------------------------------------
(* retag *)

RetagLookupEnv ==
    /\ cmd = "retag"
    /\ pc = "start"
    /\ IF LookupEnvError # Nil
       THEN Return(LookupEnvError)
       ELSE /\ pc' = "loginRegistry"
            /\ UNCHANGED <<result, i, j, tags, registryToken, t>>
    /\ UNCHANGED <<cmd, env, args, images, hubToken, manifest, now, resp, calls, stdout>>

\* variant: the error of the authentication is not checked
AfterRetagLoginUnchecked(res) ==
    /\ registryToken' = res.value
    /\ pc' = "pullManifest"
    /\ UNCHANGED <<result, i, j, tags, t>>

\* lines 73-76
AfterRetagLogin(res) ==
    IF res.err # Nil
    THEN Return(<<"failed to authenticate: ">> \o res.err)
    ELSE /\ registryToken' = res.value
         /\ pc' = "pullManifest"
         /\ UNCHANGED <<result, i, j, tags, t>>

RetagLoginRegistry ==
    /\ cmd = "retag"
    /\ pc = "loginRegistry"
    /\ \E r \in Responses(StatusOK, TokenBodies(Len(calls) + 1)) :
         LET res == loginRegistry(r)
         IN  /\ Send(Request("loginRegistry", args.repository, <<>>, Basic,
                             NoHeader, <<>>, res, res.value), r)
             /\ AfterRetagLogin(res)
    /\ UNCHANGED <<cmd, env, args, images, hubToken, manifest, now, stdout>>

\* variant: the error of the pull is not checked
AfterPullManifestUnchecked(res) ==
    /\ manifest' = res.value
    /\ pc' = "pushManifest"
    /\ UNCHANGED <<result, i, j, tags, registryToken, t>>

\* lines 78-81
AfterPullManifest(res) ==
    IF res.err # Nil
    THEN /\ Return(<<"failed to pull manifest: ">> \o res.err)
         /\ UNCHANGED manifest
    ELSE /\ manifest' = res.value
         /\ pc' = "pushManifest"
         /\ UNCHANGED <<result, i, j, tags, registryToken, t>>

RetagPullManifest ==
    /\ pc = "pullManifest"
    /\ \E r \in Responses(StatusOK, ManifestBodies) :
         LET res == pullManifest(r)
         IN  /\ Send(Request("pullManifest", args.repository, args.oldTag,
                             Bearer(registryToken),
                             Header("Accept", ManifestV2MediaType), <<>>, res, res.value), r)
             /\ AfterPullManifest(res)
    /\ UNCHANGED <<cmd, env, args, images, hubToken, now, stdout>>

\* variant: the manifest is decoded and encoded again, which drops blanks
IsNotBlank(b) == b # 32
Reencoded(buf) == SelectSeq(buf, IsNotBlank)

\* bytes.NewBuffer(manifest), the body of the PUT
NewBuffer(buf) == buf

\* variant: the separator does not depend on oldTag
AlwaysColon(oldTag) == ":"

\* lines 87-90
Separator(oldTag) == IF HasPrefix(oldTag, Sha256Prefix) THEN "@" ELSE ":"

\* lines 83-94
AfterPushManifest(res) ==
    IF res.err # Nil
    THEN /\ Return(<<"failed to push manifest: ">> \o res.err)
         /\ UNCHANGED stdout
    ELSE /\ stdout' = Append(stdout, <<"Retagged ", args.repository,
                                       Separator(args.oldTag), args.oldTag, " as ",
                                       args.repository, ":", args.newTag>>)
         /\ Return(Nil)

RetagPushManifest ==
    /\ pc = "pushManifest"
    /\ \E r \in Responses(StatusCreated, {NoBody}) :
         LET res == pushManifest(r)
         IN  /\ Send(Request("pushManifest", args.repository, args.newTag,
                             Bearer(registryToken),
                             Header("Content-Type", ManifestV2MediaType),
                             NewBuffer(manifest), res, <<>>), r)
             /\ AfterPushManifest(res)
    /\ UNCHANGED <<cmd, env, args, images, hubToken, manifest, now>>

----------------------------------------------------------------------------

Next ==
    \/ PruneLookupEnv
    \/ PruneGetAllImages
    \/ PruneLoginHub
    \/ PruneLoginRegistry
    \/ PruneListPreviewTags
    \/ PruneGetTagLastUpdate
    \/ PruneEvaluate
    \/ PruneDeleteTag
    \/ RetagLookupEnv
    \/ RetagLoginRegistry
    \/ RetagPullManifest
    \/ RetagPushManifest

Spec == Init /\ [][Next]_vars

TypeOK ==
    /\ cmd \in {"retag", "prune"}
    /\ pc \in {"start", "getAllImages", "loginHub", "loginRegistry", "listPreviewTags",
               "getTagLastUpdate", "evaluate", "deleteTag", "pullManifest",
               "pushManifest", "done"}
    /\ i \in 0..(MaxImages + 1)
    /\ j \in 0..MaxTags
    /\ now \in NowStart..MaxNow
    /\ (pc = "done") = (result.status = "returned")

----------------------------------------------------------------------------
(* Properties *)

Last == calls[Len(calls)]
Failed(k, op) == calls[k].op = op /\ ~calls[k].ok
Succeeded(k, op) == calls[k].op = op /\ calls[k].ok
ReturnedError == pc = "done" /\ result.status = "returned" /\ result.err # Nil
ReturnedSuccess == pc = "done" /\ result.status = "returned" /\ result.err = Nil

\* sub occurs in s as a contiguous run
Contains(s, sub) ==
    \E a \in 1..Len(s) :
        /\ a + Len(sub) - 1 <= Len(s)
        /\ SubSeq(s, a, a + Len(sub) - 1) = sub

\* the last_updated time carried by the latest response
FetchedTime == TimeParse(resp.body.last_updated).value

\* C1: in a prune run a failed delete is the last request of the run, and
\* the run has returned an error whose message contains the tag of that
\* delete.
C1_DeleteFailureAborts ==
    \A k \in 1..Len(calls) :
        Failed(k, "deleteTag") =>
            /\ k = Len(calls)
            /\ ReturnedError
            /\ result.err[1] = "failed to delete tag "
            /\ Contains(result.err, calls[k].tag)

\* a delete answered with a status other than 204 while a further tag and a
\* further repository were still to come
C1_Witness ==
    /\ Len(calls) > 0
    /\ Failed(Len(calls), "deleteTag")
    /\ resp.transport = "ok"
    /\ resp.status # StatusNoContent
    /\ j < Len(tags)
    /\ i < Len(images)
    /\ pc = "done"

\* C2: every step that sends a delete for (repository, tag) is taken when
\* the latest request is a successful last-updated fetch for that same
\* (repository, tag) whose response carries a parseable time that lies
\* strictly more than 24 hours before the clock reading of line 152.
C2_DeleteOnlyAfterAgeCheck ==
    [][(calls' # calls /\ calls'[Len(calls')].op = "deleteTag") =>
          /\ Len(calls') = Len(calls) + 1
          /\ Len(calls) >= 1
          /\ Succeeded(Len(calls), "getTagLastUpdate")
          /\ Last.repo = calls'[Len(calls')].repo
          /\ Last.tag = calls'[Len(calls')].tag
          /\ resp.transport = "ok"
          /\ resp.status = StatusOK
          /\ resp.body.kind = "json"
          /\ TimeParse(resp.body.last_updated).err = Nil
          /\ now - FetchedTime > HoursLimit * UnitsPerHour]_vars

\* a delete has been sent for a tag that was one clock unit over the limit
C2_Witness ==
    /\ Len(calls) >= 2
    /\ Last.op = "deleteTag"
    /\ calls[Len(calls) - 1].op = "getTagLastUpdate"
    /\ now - t = HoursLimit * UnitsPerHour + 1

\* the decision of line 152 for the tag whose time was fetched last
Evaluated == Len(calls) > 0 /\ Succeeded(Len(calls), "getTagLastUpdate") /\ pc # "evaluate"
Eligible == now - FetchedTime > HoursLimit * UnitsPerHour

\* C3: when the preview-tag listing of a repository fails, no tag of that
\* repository is fetched or deleted, the next request (if any) is the
\* registry authentication of the next repository, every repository listed
\* later with success has its tags evaluated (those older than 24 hours go to
\* the delete), and the run returns success when every other call succeeded.
C3_ListFailureSkipsRepository ==
    \A a \in 1..Len(calls) :
        Failed(a, "listPreviewTags") =>
            /\ \A k \in 1..Len(calls) :
                   calls[k].repo = calls[a].repo =>
                       calls[k].op \notin {"getTagLastUpdate", "deleteTag"}
            /\ a < Len(calls) =>
                   /\ calls[a + 1].op = "loginRegistry"
                   /\ calls[a + 1].repo # calls[a].repo
            /\ Evaluated => (Eligible <=> pc = "deleteTag")
            /\ (pc = "done" /\ \A k \in 1..Len(calls) :
                                   calls[k].ok \/ calls[k].op = "listPreviewTags") =>
                   /\ ReturnedSuccess
                   /\ \A m \in 1..Len(images) :
                          \E k \in 1..Len(calls) :
                              /\ calls[k].op = "listPreviewTags"
                              /\ calls[k].repo = Repository(images[m])
                   /\ \A b \in (a + 1)..Len(calls) :
                          Succeeded(b, "listPreviewTags") =>
                              \A m \in 1..Len(calls[b].reply) :
                                  \E k \in (b + 1)..Len(calls) :
                                      /\ Succeeded(k, "getTagLastUpdate")
                                      /\ calls[k].repo = calls[b].repo
                                      /\ calls[k].tag = calls[b].reply[m]

\* the listing of the first repository failed, the second repository had a
\* preview tag deleted, and the run returned success
C3_Witness ==
    /\ ReturnedSuccess
    /\ \E a \in 1..Len(calls) :
           /\ Failed(a, "listPreviewTags")
           /\ \E b \in (a + 1)..Len(calls) :
                  /\ Succeeded(b, "listPreviewTags")
                  /\ calls[b].reply # <<>>
                  /\ \E k \in (b + 1)..Len(calls) :
                         /\ Succeeded(k, "deleteTag")
                         /\ calls[k].repo = calls[b].repo

\* C4: once line 152 has decided on a fetched tag, the tag goes to the
\* delete exactly when its last_updated lies more than 24 hours before the
\* clock reading: at exactly 24 hours it is kept, at one clock unit more it is
\* deleted.
C4_StrictAgeBoundary ==
    Evaluated =>
        /\ (now - FetchedTime = HoursLimit * UnitsPerHour) => pc # "deleteTag"
        /\ (now - FetchedTime > HoursLimit * UnitsPerHour) => pc = "deleteTag"
        /\ (now - FetchedTime < HoursLimit * UnitsPerHour) => pc # "deleteTag"

\* a tag of exactly 24 hours was kept after an earlier tag had been deleted
C4_Witness ==
    /\ Evaluated
    /\ now - FetchedTime = HoursLimit * UnitsPerHour
    /\ pc # "deleteTag"
    /\ \E k \in 1..Len(calls) : Succeeded(k, "deleteTag")

\* C5: every manifest push of a retag run directly follows the successful
\* pull of oldTag from the same repository, its body is exactly the bytes that
\* pull returned, and its Content-Type is the media type the pull sent as
\* Accept.
C5_PushSendsPulledBytes ==
    \A k \in 1..Len(calls) :
        calls[k].op = "pushManifest" =>
            /\ k >= 2
            /\ Succeeded(k - 1, "pullManifest")
            /\ calls[k - 1].repo = calls[k].repo
            /\ calls[k - 1].tag = args.oldTag
            /\ calls[k].tag = args.newTag
            /\ calls[k].body = calls[k - 1].reply
            /\ calls[k - 1].header.name = "Accept"
            /\ calls[k].header.name = "Content-Type"
            /\ calls[k].header.value = calls[k - 1].header.value

\* a manifest that contains a blank has been pushed
C5_Witness ==
    /\ Len(calls) >= 2
    /\ Last.op = "pushManifest"
    /\ Last.body = <<123, 32, 125>>
    /\ calls[Len(calls) - 1].reply = <<123, 32, 125>>

\* the message prefix with which the retag Action wraps the error of a stage
StagePrefix(op) ==
    CASE op = "loginRegistry" -> "failed to authenticate: "
      [] op = "pullManifest" -> "failed to pull manifest: "
      [] op = "pushManifest" -> "failed to push manifest: "
RetagStages == <<"loginRegistry", "pullManifest", "pushManifest">>

\* C6: the requests of a retag run are a prefix of authenticate, pull, push;
\* only the last request of the run can have failed, and then the run has
\* returned an error that starts with the prefix of that stage and of no
\* other stage.
C6_RetagStagesInOrder ==
    cmd = "retag" =>
        /\ Len(calls) <= Len(RetagStages)
        /\ \A k \in 1..Len(calls) :
               /\ calls[k].op = RetagStages[k]
               /\ k < Len(calls) => calls[k].ok
               /\ ~calls[k].ok =>
                      /\ ReturnedError
                      /\ result.err[1] = StagePrefix(calls[k].op)
                      /\ \A other \in 1..Len(RetagStages) :
                             RetagStages[other] # calls[k].op =>
                                 result.err[1] # StagePrefix(RetagStages[other])
        /\ (ReturnedError /\ Len(calls) > 0) => ~Last.ok

\* the pull failed and the run ended without a push
C6_Witness ==
    /\ cmd = "retag"
    /\ pc = "done"
    /\ Len(calls) = 2
    /\ Failed(2, "pullManifest")

\* C7: with neither credential variable set, a run of either command sends
\* no request at all and, once it has returned, has returned an error.
C7_NoCredentialsNoCalls ==
    (~env.user /\ ~env.pass) =>
        /\ Len(calls) = 0
        /\ pc \in {"start", "done"}
        /\ pc = "done" => ReturnedError

\* a run without credentials has returned
C7_Witness ==
    /\ ~env.user
    /\ ~env.pass
    /\ pc = "done"
    /\ Len(calls) = 0

\* C8: in a prune run a failed hub login or registry authentication is the
\* last request of the run, and the run has returned an error.
C8_AuthFailureIsFatal ==
    cmd = "prune" =>
        \A k \in 1..Len(calls) :
            (Failed(k, "loginHub") \/ Failed(k, "loginRegistry")) =>
                /\ k = Len(calls)
                /\ ReturnedError
                /\ result.err[1] = "failed to authenticate: "

\* the registry authentication of the first of two repositories failed
C8_Witness ==
    /\ cmd = "prune"
    /\ Len(calls) > 0
    /\ Failed(Len(calls), "loginRegistry")
    /\ i < Len(images)
    /\ pc = "done"

\* C9: a failed last-updated fetch is the last request of the run (so the
\* tag is not deleted and nothing else is processed), and the run has
\* returned an error.
C9_TimestampFailureAborts ==
    \A k \in 1..Len(calls) :
        Failed(k, "getTagLastUpdate") =>
            /\ k = Len(calls)
            /\ ReturnedError
            /\ result.err[1] = "failed to get last tag update: "

\* the last_updated of the first of two tags did not parse
C9_Witness ==
    /\ Len(calls) > 0
    /\ Failed(Len(calls), "getTagLastUpdate")
    /\ resp.status = StatusOK
    /\ resp.body = JsonLastUpdated(NotATime)
    /\ j < Len(tags)
    /\ pc = "done"

\* C10: a prune run whose organization listing failed does not return
\* success.
C10_ListingFailureIsFatal ==
    (\E k \in 1..Len(calls) : Failed(k, "getAllImages")) => ~ReturnedSuccess


\* C11: no request is sent twice: no two entries of calls have the same
\* operation, repository and tag (the login and the organization listing
\* carry neither), also when the run has ended in a failed call; and every
\* per-repository request of a prune run is for an entry of the listing.
C11_NoCallIsRetried ==
    /\ \A k \in 1..Len(calls) : \A l \in 1..Len(calls) :
           (k # l) =>
               ~ /\ calls[k].op = calls[l].op
                 /\ calls[k].repo = calls[l].repo
                 /\ calls[k].tag = calls[l].tag
    /\ cmd = "prune" =>
           \A k \in 1..Len(calls) :
               calls[k].op \notin {"getAllImages", "loginHub"} =>
                   \E m \in 1..Len(images) : calls[k].repo = Repository(images[m])

\* the run ended in a failed delete after an earlier delete had succeeded
C11_Witness ==
    /\ pc = "done"
    /\ Len(calls) > 0
    /\ Failed(Len(calls), "deleteTag")
    /\ \E k \in 1..(Len(calls) - 1) : Succeeded(k, "deleteTag")

PerRepositoryOps == {"loginRegistry", "listPreviewTags", "getTagLastUpdate", "deleteTag"}

\* C12 as stated: the hub login comes before the organization listing.
C12_HubLoginBeforeListing ==
    cmd = "prune" =>
        \A k \in 1..Len(calls) :
            calls[k].op = "getAllImages" =>
                \E m \in 1..(k - 1) : calls[m].op = "loginHub"

\* C12 amended: in a prune run the organization listing is the first request
\* and the hub login the second, each sent once; every per-repository
\* request comes after both and after a successful hub login.
C12_ListingThenHubLogin ==
    cmd = "prune" =>
        \A k \in 1..Len(calls) :
            /\ (calls[k].op = "getAllImages") <=> (k = 1)
            /\ (calls[k].op = "loginHub") <=> (k = 2)
            /\ calls[k].op \in PerRepositoryOps =>
                   /\ k >= 3
                   /\ Succeeded(2, "loginHub")

\* the first registry authentication has been sent as the third request
C12_Witness ==
    /\ cmd = "prune"
    /\ Len(calls) >= 3
    /\ calls[1].op = "getAllImages"
    /\ calls[2].op = "loginHub"
    /\ calls[3].op = "loginRegistry"

\* C13: every last-updated fetch and every delete is for a tag name whose
\* first eight characters are "preview-".
C13_OnlyPreviewTagsTouched ==
    \A k \in 1..Len(calls) :
        calls[k].op \in {"getTagLastUpdate", "deleteTag"} =>
            /\ Len(calls[k].tag) >= 8
            /\ SubSeq(calls[k].tag, 1, 8) = <<"p", "r", "e", "v", "i", "e", "w", "-">>

\* a tag has been deleted in a repository whose tag list also held names
\* without the prefix
C13_Witness ==
    /\ Len(calls) >= 3
    /\ Succeeded(Len(calls), "deleteTag")
    /\ Succeeded(Len(calls) - 2, "listPreviewTags")
    /\ Len(calls[Len(calls) - 2].reply) = 1
    /\ Last.tag = PreviewB


\* the positions of list whose name starts with "preview-"
PreviewPositions(list) ==
    {k \in 1..Len(list) :
        /\ Len(list[k]) >= 8
        /\ SubSeq(list[k], 1, 8) = <<"p", "r", "e", "v", "i", "e", "w", "-">>}
\* the m-th smallest element of the set of positions P
NthPosition(P, m) == CHOOSE k \in P : Cardinality({q \in P : q <= k}) = m
\* out is list restricted to its preview names, in the order of list
IsPreviewSubsequence(out, list) ==
    /\ Len(out) = Cardinality(PreviewPositions(list))
    /\ \A m \in 1..Len(out) : out[m] = list[NthPosition(PreviewPositions(list), m)]

\* C14: when the tag list endpoint answered 200 with a readable JSON body,
\* listPreviewTags returned without error exactly the names of the body that
\* start with "preview-", in the order of the body; on any other answer it
\* returned an error.
C14_ListPreviewTagsFilters ==
    (Len(calls) > 0 /\ Last.op = "listPreviewTags") =>
        IF resp.transport = "ok" /\ resp.status = StatusOK /\ resp.body.kind = "json"
        THEN /\ Last.ok
             /\ IsPreviewSubsequence(Last.reply, resp.body.tags)
             /\ Len(Last.reply) > 0 => tags = Last.reply
        ELSE ~Last.ok

\* a list of two preview names around another name has been filtered
C14_Witness ==
    /\ Len(calls) > 0
    /\ Last.op = "listPreviewTags"
    /\ resp.status = StatusOK
    /\ resp.body = JsonTags(<<PreviewB, Latest, PreviewA>>)
    /\ Last.reply = <<PreviewB, PreviewA>>

\* C15: a retag run prints at most one line, and only after a push that was
\* answered 201; the line is "Retagged <repository><sep><oldTag> as
\* <repository>:<newTag>" with sep "@" when oldTag starts with "sha256:" and
\* ":" otherwise; a retag run that returned success has printed it.
C15_ConfirmationLine ==
    cmd = "retag" =>
        /\ stdout # <<>> =>
               /\ Len(stdout) = 1
               /\ Len(calls) = 3
               /\ Succeeded(3, "pushManifest")
               /\ resp.transport = "ok"
               /\ resp.status = StatusCreated
               /\ stdout[1] =
                      <<"Retagged ", args.repository,
                        IF /\ Len(args.oldTag) >= 7
                           /\ SubSeq(args.oldTag, 1, 7) = <<"s", "h", "a", "2", "5", "6", ":">>
                        THEN "@" ELSE ":",
                        args.oldTag, " as ", args.repository, ":", args.newTag>>
        /\ ReturnedSuccess => stdout # <<>>

\* the confirmation of a retag from a digest has been printed
C15_Witness ==
    /\ cmd = "retag"
    /\ stdout # <<>>
    /\ args.oldTag = DigestTag

\* C16: right after a login call (hub or registry), the call succeeded
\* exactly when the endpoint answered 200 with a readable JSON body whose
\* token is not empty; then the token returned, and held by the program, is
\* that field; otherwise no token was returned.
C16_TokenOnlyFrom200WithToken ==
    (Len(calls) > 0 /\ Last.op \in {"loginHub", "loginRegistry"}) =>
        IF /\ resp.transport = "ok"
           /\ resp.status = StatusOK
           /\ resp.body.kind = "json"
           /\ resp.body.token # <<>>
        THEN /\ Last.ok
             /\ Last.reply = resp.body.token
             /\ Last.reply # <<>>
             /\ Last.op = "loginHub" => hubToken = resp.body.token
             /\ Last.op = "loginRegistry" => registryToken = resp.body.token
        ELSE /\ ~Last.ok
             /\ Last.reply = <<>>
             /\ ReturnedError

\* the hub answered 200 with an empty token and the run failed
C16_Witness ==
    /\ Len(calls) > 0
    /\ Last.op = "loginHub"
    /\ resp.status = StatusOK
    /\ resp.body = JsonToken(EmptyString)
    /\ ReturnedError


\* C17: every tag listing directly follows the successful registry
\* authentication for the same repository and carries the token that
\* authentication returned; pull and push of a retag carry the token of the
\* one authentication of the run, made for the retagged repository; every
\* delete carries, as JWT, the token the hub login of the run returned, which
\* is the token of no registry authentication.
C17_TokensUsedWhereIssued ==
    \A k \in 1..Len(calls) :
        /\ calls[k].op = "listPreviewTags" =>
               /\ k >= 2
               /\ Succeeded(k - 1, "loginRegistry")
               /\ calls[k - 1].repo = calls[k].repo
               /\ calls[k].auth = [scheme |-> "Bearer", credential |-> calls[k - 1].reply]
        /\ calls[k].op \in {"pullManifest", "pushManifest"} =>
               /\ Succeeded(1, "loginRegistry")
               /\ calls[1].repo = args.repository
               /\ calls[k].repo = args.repository
               /\ calls[k].auth = [scheme |-> "Bearer", credential |-> calls[1].reply]
        /\ calls[k].op = "deleteTag" =>
               /\ calls[k].auth.scheme = "JWT"
               /\ \E m \in 1..(k - 1) :
                      /\ Succeeded(m, "loginHub")
                      /\ calls[k].auth.credential = calls[m].reply
               /\ \A m \in 1..Len(calls) :
                      calls[m].op = "loginRegistry" =>
                          calls[m].reply # calls[k].auth.credential

\* a tag of the second repository has been deleted
C17_Witness ==
    /\ Len(calls) > 0
    /\ Succeeded(Len(calls), "deleteTag")
    /\ Last.repo = Repository(ImageName(2))

\* the position in images of the repository of request k
ImageIndex(k) == CHOOSE m \in 1..Len(images) : Repository(images[m]) = calls[k].repo
\* the listing request of the repository of request k
ListingOf(k) ==
    CHOOSE b \in 1..Len(calls) :
        calls[b].op = "listPreviewTags" /\ calls[b].repo = calls[k].repo
\* how many last-updated fetches lie in calls[a..b]
FetchesIn(a, b) == Cardinality({l \in a..b : calls[l].op = "getTagLastUpdate"})

\* C18: in a prune run the requests for the repositories follow the order of
\* the listing with no request for an earlier repository after one for a
\* later; within a repository the n-th fetch is for the n-th tag of the
\* preview-tag list; every delete directly follows the successful fetch of
\* its own tag; and a request is only sent after the one before it succeeded
\* (or was a failed tag listing).
C18_SequentialInListOrder ==
    cmd = "prune" =>
        \A k \in 1..Len(calls) :
            /\ calls[k].op \in PerRepositoryOps =>
                   /\ \A l \in 1..(k - 1) :
                          calls[l].op \in PerRepositoryOps =>
                              ImageIndex(l) <= ImageIndex(k)
                   /\ calls[k - 1].ok \/ calls[k - 1].op \in {"listPreviewTags", "getAllImages"}
            /\ calls[k].op = "loginRegistry" =>
                   /\ \A l \in 1..(k - 1) : calls[l].repo # calls[k].repo
                   /\ ImageIndex(k) = Cardinality({l \in 1..k : calls[l].op = "loginRegistry"})
            /\ calls[k].op = "getTagLastUpdate" =>
                   /\ Succeeded(ListingOf(k), "listPreviewTags")
                   /\ ListingOf(k) < k
                   /\ FetchesIn(ListingOf(k), k) <= Len(calls[ListingOf(k)].reply)
                   /\ calls[k].tag = calls[ListingOf(k)].reply[FetchesIn(ListingOf(k), k)]
            /\ calls[k].op = "deleteTag" =>
                   /\ Succeeded(k - 1, "getTagLastUpdate")
                   /\ calls[k - 1].repo = calls[k].repo
                   /\ calls[k - 1].tag = calls[k].tag

\* the first of two tags of the first repository was deleted before the
\* second was fetched, and the second repository came after
C18_Witness ==
    /\ cmd = "prune"
    /\ Len(calls) >= 9
    /\ Succeeded(4, "listPreviewTags")
    /\ Len(calls[4].reply) = 2
    /\ Succeeded(6, "deleteTag")
    /\ calls[6].tag = calls[4].reply[1]
    /\ calls[7].op = "getTagLastUpdate"
    /\ calls[7].tag = calls[4].reply[2]
    /\ calls[Len(calls)].repo = Repository(images[2])

\* C19: the step of line 152 sends a tag to the delete exactly when it is
\* older than 24 hours at the clock reading, and sends nothing itself; from
\* there the next step sends the delete for that tag, which counts as
\* succeeded only on a 204 and otherwise ends the run in error; no delete is
\* sent from anywhere else; and when the run returns success every delete
\* sent has succeeded and every tag of every successful listing was fetched.
C19_SuccessMeansEligibleDeleted ==
    [][/\ pc = "evaluate" =>
              /\ calls' = calls
              /\ (pc' = "deleteTag") <=> (now' - FetchedTime > HoursLimit * UnitsPerHour)
       /\ pc = "deleteTag" =>
              /\ Len(calls') = Len(calls) + 1
              /\ calls'[Len(calls')].op = "deleteTag"
              /\ calls'[Len(calls')].repo = Repository(images[i])
              /\ calls'[Len(calls')].tag = tags[j]
              /\ calls'[Len(calls')].ok =>
                     (resp'.transport = "ok" /\ resp'.status = StatusNoContent)
              /\ ~calls'[Len(calls')].ok => ReturnedError'
       /\ (calls' # calls /\ calls'[Len(calls')].op = "deleteTag") => pc = "deleteTag"
       /\ ReturnedSuccess' =>
              \A k \in 1..Len(calls') :
                  /\ calls'[k].op = "deleteTag" => calls'[k].ok
                  /\ Succeeded(k, "listPreviewTags")' =>
                         \A m \in 1..Len(calls'[k].reply) :
                             \E l \in (k + 1)..Len(calls') :
                                 /\ calls'[l].op = "getTagLastUpdate"
                                 /\ calls'[l].ok
                                 /\ calls'[l].repo = calls'[k].repo
                                 /\ calls'[l].tag = calls'[k].reply[m]]_vars

\* a prune run returned success after deleting one tag and keeping another
C19_Witness ==
    /\ cmd = "prune"
    /\ ReturnedSuccess
    /\ \E k \in 1..Len(calls) : Succeeded(k, "deleteTag")
    /\ \E k \in 1..Len(calls) :
           /\ Succeeded(k, "getTagLastUpdate")
           /\ (k = Len(calls) \/ calls[k + 1].op # "deleteTag")

\* C20: a retag run sends only registry authentication, pull and push; at
\* most one push, to newTag of the given repository and only after the
\* authentication and the pull succeeded; after a failed authentication or
\* pull no push is sent.
C20_RetagWritesOnce ==
    cmd = "retag" =>
        /\ \A k \in 1..Len(calls) :
               /\ calls[k].op \in {"loginRegistry", "pullManifest", "pushManifest"}
               /\ calls[k].op = "pushManifest" =>
                      /\ calls[k].repo = args.repository
                      /\ calls[k].tag = args.newTag
                      /\ \A m \in 1..(k - 1) : calls[m].ok
        /\ Cardinality({k \in 1..Len(calls) : calls[k].op = "pushManifest"}) <= 1
        /\ (\E k \in 1..Len(calls) :
                Failed(k, "loginRegistry") \/ Failed(k, "pullManifest")) =>
               \A k \in 1..Len(calls) : calls[k].op # "pushManifest"

\* the one push of a retag run has been sent and accepted
C20_Witness ==
    /\ cmd = "retag"
    /\ Len(calls) = 3
    /\ Succeeded(3, "pushManifest")
    /\ Last.tag = args.newTag
    /\ stdout # <<>>

====
